---- MODULE Spec2Model ----
(***************************************************************************)
(* Posture calibration and slouch scoring of HabitKicker                   *)
(* (src/habitkicker/detectors/slouch_detector.py, class SlouchDetector).   *)
(*                                                                         *)
(* Time is counted in units of 50 ms (half a sample interval), so the      *)
(* 0.1 s sample interval is 2 units and the 3 s countdown and the 3.0 s    *)
(* sampling window are 60 units each.  Coordinates are exact rationals     *)
(* <<numerator, denominator>> in units of 0.01 of the normalised camera    *)
(* space; floating-point rounding is not modelled.                         *)
(***************************************************************************)
EXTENDS Integers, Sequences, FiniteSets, TLC

(***************************************************************************)
(* Bounds of the model.                                                    *)
(***************************************************************************)
\* value of time.time() when the detector is constructed
StartTime == 100
\* the clock is not advanced past StartTime + Horizon
Horizon == 200
\* the clock is read at the first FineSpan units of every period
FineSpan == 2

(***************************************************************************)
(* Program constants, in model units.                                     *)
(***************************************************************************)
\* self.calibration_duration = 3.0 seconds
calibration_duration == 60
\* self.sample_interval = 0.1 seconds
sample_interval == 2
\* self.calibration_countdown = 3 seconds, set by start_calibration
COUNTDOWN == 60

VARIABLES
    now,                    \* last value read from time.time()
    calibrated,             \* self.calibrated
    calibration_landmarks,  \* self.calibration_landmarks (the baseline)
    calibration_countdown,  \* self.calibration_countdown
    calibration_start_time, \* self.calibration_start_time
    calibration_samples,    \* self.calibration_samples
    last_sample_time,       \* self.last_sample_time
    file,                   \* content of data/posture_calibration.pkl
    op,                     \* the operation that ran last
    ret,                    \* its return value
    completions,            \* baselines computed since the last start
    saves,                  \* save_calibration calls since the last start
    started,                \* start_calibration has been called
    samplingBegan,          \* time at which the countdown of the session ended, 0 before
    lastAccept,             \* time at which the newest held sample was accepted
    stale,                  \* a held sample was accepted before the last start
    discarded,              \* a start interrupted a session that held samples
    threshold_percentage,         \* self.threshold_percentage
    last_slouch_calculation_time, \* self.last_slouch_calculation_time
    last_slouch_percentage,       \* self.last_slouch_percentage
    last_slouch_detected,         \* self.last_slouch_detected
    exc,                          \* the exception the last check_slouching raised, NoExc if none
    scored,                       \* the snapshot the last recomputation scored, None before
    latest,                       \* the baseline of the most recently completed calibration, None before
    persisted,                    \* what the saves have left in storage: None while no save has
                                  \* written, Corrupt after a failed write, else the baseline written
    call,                         \* the frame of the check_slouching call in flight, Idle if none
    camera,                       \* the Camera fields is_calibrating, processing_delay,
                                  \* enable_slouch_detection and stored_processing_delay
    gui,                          \* the window's temp_enable_slouch_detection, calibration timer
                                  \* and status label, and where its thread is in calibrate_posture
    proc,                         \* the frame of the _process_pose_landmarks call in flight, Idle if none
    before,                       \* processing_delay and enable_slouch_detection as they were when
                                  \* the calibration now requested was asked for, None before
    startedAt                     \* the clock reading of the last start_calibration, 0 before

vars == <<now, calibrated, calibration_landmarks, calibration_countdown,
          calibration_start_time, calibration_samples, last_sample_time,
          file, op, ret, completions, saves, started, samplingBegan,
          lastAccept, stale, discarded, threshold_percentage,
          last_slouch_calculation_time, last_slouch_percentage,
          last_slouch_detected, exc, scored, latest, persisted, call,
          camera, gui, proc, before, startedAt>>

\* the state of the camera and of the window around the detector
host == <<camera, gui, proc, before>>

(***************************************************************************)
(* Exact rational arithmetic standing for the float arithmetic.           *)
(***************************************************************************)
Abs(x) == IF x < 0 THEN -x ELSE x

RECURSIVE Gcd(_, _)
Gcd(a, b) == IF b = 0 THEN a ELSE Gcd(b, a % b)

\* the one element of a singleton set; binding a value through a singleton
\* set computes it once
The(S) == CHOOSE x \in S : TRUE

\* the rational n/d (d > 0) in lowest terms
Rat(n, d) ==
    The(UNION {{<<nv \div g, dv \div g>> : g \in {Gcd(Abs(nv), dv)}} : nv \in {n}, dv \in {d}})

\* p + q
RAdd(p, q) ==
    The({Rat(pv[1] * qv[2] + qv[1] * pv[2], pv[2] * qv[2]) : pv \in {p}, qv \in {q}})

\* p / k for a positive integer k
RDivInt(p, k) == The({Rat(pv[1], pv[2] * k) : pv \in {p}})

\* p - q
RSub(p, q) ==
    The({Rat(pv[1] * qv[2] - qv[1] * pv[2], pv[2] * qv[2]) : pv \in {p}, qv \in {q}})

\* p * q
RMul(p, q) == The({Rat(pv[1] * qv[1], pv[2] * qv[2]) : pv \in {p}, qv \in {q}})

\* p / q for q # 0
RDiv(p, q) ==
    The({IF qv[1] > 0 THEN Rat(pv[1] * qv[2], pv[2] * qv[1])
                      ELSE Rat(-(pv[1] * qv[2]), -(pv[2] * qv[1])) : pv \in {p}, qv \in {q}})

\* p < q
RLess(p, q) == p[1] * q[2] < q[1] * p[2]

\* abs(p)
RAbs(p) == <<Abs(p[1]), p[2]>>

\* the integer r in lo..hi with r * r = n, by bisection
RECURSIVE IntRoot(_, _, _)
IntRoot(n, lo, hi) ==
    IF lo = hi THEN lo
    ELSE LET mid == (lo + hi + 1) \div 2
         IN IF mid * mid <= n THEN IntRoot(n, mid, hi) ELSE IntRoot(n, lo, mid - 1)

\* p is the square of a rational
IsSquare(p) ==
    /\ p[1] >= 0
    /\ IntRoot(p[1], 0, p[1]) * IntRoot(p[1], 0, p[1]) = p[1]
    /\ IntRoot(p[2], 0, p[2]) * IntRoot(p[2], 0, p[2]) = p[2]

\* np.sqrt and np.linalg.norm on the values whose root is rational; the poses
\* of the model are chosen so that no other value arises
RSqrt(p) ==
    The({CASE IsSquare(pv) -> <<IntRoot(pv[1], 0, pv[1]), IntRoot(pv[2], 0, pv[2])>> : pv \in {p}})

\* np.arccos(c) * (180 / np.pi) on the cosines of parallel, perpendicular and
\* opposite vectors, the only rational ones that unit vectors with rational
\* components can have at a rational number of degrees
ArccosDegrees(c) ==
    CASE c = Rat(1, 1)  -> Rat(0, 1)
      [] c = Rat(0, 1)  -> Rat(90, 1)
      [] c = Rat(-1, 1) -> Rat(180, 1)

\* np.clip(c, -1.0, 1.0)
Clip(c) ==
    IF RLess(c, Rat(-1, 1)) THEN Rat(-1, 1)
    ELSE IF RLess(Rat(1, 1), c) THEN Rat(1, 1) ELSE c

(***************************************************************************)
(* Pose inputs and snapshots.                                             *)
(***************************************************************************)
\* Python None
None == [none |-> TRUE]

\* the empty dict {}
EmptyDict == << >>

\* a truthy object without a `landmark` attribute
NoLandmarkPose == [other |-> TRUE]

\* MediaPipe indices used by the extractor
LandmarkIndices == {0, 7, 8, 11, 12}

Pt(x, y, z) == [x |-> Rat(x, 1), y |-> Rat(y, 1), z |-> Rat(z, 1)]

\* upright pose: nose (50,30), shoulders (30,50) and (70,50)
PoseA ==
    [landmark |-> [i \in LandmarkIndices |->
        CASE i = 0  -> Pt(50, 30, 0)
          [] i = 7  -> Pt(45, 28, 1)
          [] i = 8  -> Pt(55, 28, 1)
          [] i = 11 -> Pt(30, 50, 0)
          [] i = 12 -> Pt(70, 50, 0)]]

\* slouched pose: shoulders dropped, odd coordinate sums
PoseB ==
    [landmark |-> [i \in LandmarkIndices |->
        CASE i = 0  -> Pt(51, 34, 2)
          [] i = 7  -> Pt(46, 31, 3)
          [] i = 8  -> Pt(57, 32, 3)
          [] i = 11 -> Pt(31, 55, 1)
          [] i = 12 -> Pt(70, 56, 2)]]

ValidPoses == {PoseA, PoseB}

\* a pose with the given nose and shoulders (x, y), ears beside and above the nose
PoseAt(nose, left, right) ==
    [landmark |-> [i \in LandmarkIndices |->
        CASE i = 0  -> [x |-> nose[1], y |-> nose[2], z |-> Rat(0, 1)]
          [] i = 7  -> [x |-> RSub(nose[1], Rat(5, 1)), y |-> RSub(nose[2], Rat(2, 1)),
                        z |-> Rat(1, 1)]
          [] i = 8  -> [x |-> RAdd(nose[1], Rat(5, 1)), y |-> RSub(nose[2], Rat(2, 1)),
                        z |-> Rat(1, 1)]
          [] i = 11 -> [x |-> left[1], y |-> left[2], z |-> Rat(0, 1)]
          [] i = 12 -> [x |-> right[1], y |-> right[2], z |-> Rat(0, 1)]]]

\* the upright pose with both shoulders dropped by 0.05
PoseDrop ==
    PoseAt(<<Rat(50, 1), Rat(30, 1)>>, <<Rat(30, 1), Rat(55, 1)>>, <<Rat(70, 1), Rat(55, 1)>>)

\* the nose level with the shoulders and 0.2 to the side of their midpoint
PoseTilt ==
    PoseAt(<<Rat(70, 1), Rat(50, 1)>>, <<Rat(30, 1), Rat(50, 1)>>, <<Rat(70, 1), Rat(50, 1)>>)

\* degenerate geometry: the nose on the midpoint of the shoulders
PoseFlat ==
    PoseAt(<<Rat(50, 1), Rat(50, 1)>>, <<Rat(30, 1), Rat(50, 1)>>, <<Rat(70, 1), Rat(50, 1)>>)

\* the nose 0.0005 below the midpoint of the shoulders
PoseNear ==
    PoseAt(<<Rat(50, 1), Rat(1001, 20)>>, <<Rat(30, 1), Rat(50, 1)>>, <<Rat(70, 1), Rat(50, 1)>>)

PoseInputs == {None, NoLandmarkPose} \cup ValidPoses

\* Python truthiness of the pose_landmarks argument
Truthy(pose) == pose # None

\* keys of a snapshot
Keys == {"left_shoulder", "right_shoulder", "neck", "nose", "left_ear", "right_ear"}

Triple(p) == <<p.x, p.y, p.z>>

Mid(a, b) == RDivInt(RAdd(a, b), 2)

\* slip: the neck is taken from the left shoulder alone
extract_posture_landmarks_leftneck(pose) ==
    IF "landmark" \in DOMAIN pose
    THEN LET lm == pose.landmark IN
         [left_shoulder  |-> Triple(lm[11]),
          right_shoulder |-> Triple(lm[12]),
          neck           |-> Triple(lm[11]),
          nose           |-> Triple(lm[0]),
          left_ear       |-> Triple(lm[7]),
          right_ear      |-> Triple(lm[8])]
    ELSE EmptyDict

\* SlouchDetector._extract_posture_landmarks
extract_posture_landmarks(pose) ==
    IF "landmark" \in DOMAIN pose
    THEN LET lm == pose.landmark IN
         [left_shoulder  |-> Triple(lm[11]),
          right_shoulder |-> Triple(lm[12]),
          neck           |-> <<Mid(lm[11].x, lm[12].x),
                               Mid(lm[11].y, lm[12].y),
                               Mid(lm[11].z, lm[12].z)>>,
          nose           |-> Triple(lm[0]),
          left_ear       |-> Triple(lm[7]),
          right_ear      |-> Triple(lm[8])]
    ELSE EmptyDict

\* truthiness of a dict
NonEmpty(dict) == DOMAIN dict # {}

\* no exception was raised
NoExc == "none"

(***************************************************************************)
(* The detector object and its storage, as one record.                    *)
(***************************************************************************)
Self ==
    [calibrated             |-> calibrated,
     calibration_landmarks  |-> calibration_landmarks,
     calibration_countdown  |-> calibration_countdown,
     calibration_start_time |-> calibration_start_time,
     calibration_samples    |-> calibration_samples,
     last_sample_time       |-> last_sample_time,
     file                   |-> file,
     completions            |-> completions,
     saves                  |-> saves,
     ret                    |-> ret,
     threshold_percentage         |-> threshold_percentage,
     last_slouch_calculation_time |-> last_slouch_calculation_time,
     last_slouch_percentage       |-> last_slouch_percentage,
     last_slouch_detected         |-> last_slouch_detected,
     exc                          |-> exc]

\* outcomes of the open()/pickle.dump() pair of save_calibration
IoOutcomes == {"ok", "open_fails", "dump_fails"}

\* what the calibration file can hold when a detector is constructed
Missing == [missing |-> TRUE]

Corrupt == [corrupt |-> TRUE]

\* the order in which the snapshot dict holds its keys
KeyOrder == <<"left_shoulder", "right_shoulder", "neck", "nose", "left_ear", "right_ear">>

\* pickle.dump of a dict: the stream of its (key, value) items
pickle_dump(dict) ==
    LET Held(k) == k \in DOMAIN dict
        ks == SelectSeq(KeyOrder, Held)
    IN [stream |-> [i \in 1..Len(ks) |-> <<ks[i], dict[ks[i]]>>]]

\* pickle.load of such a stream: the dict rebuilt item by item
pickle_load(content) ==
    LET items == content.stream
    IN [k \in {items[i][1] : i \in 1..Len(items)} |->
           items[CHOOSE i \in 1..Len(items) : items[i][1] = k][2]]

(***************************************************************************)
(* SlouchDetector.save_calibration                                        *)
(***************************************************************************)
\* slip: an empty dict is written in place of the baseline
save_calibration_empty(s, io) ==
    LET c == [s EXCEPT !.saves = @ + 1] IN
    IF ~c.calibrated \/ c.calibration_landmarks = None
    THEN [c EXCEPT !.ret = FALSE]
    ELSE CASE io = "ok"         -> [c EXCEPT !.file = pickle_dump(EmptyDict), !.ret = TRUE]
           [] io = "open_fails" -> [c EXCEPT !.ret = FALSE]
           [] io = "dump_fails" -> [c EXCEPT !.file = Corrupt, !.ret = FALSE]

\* slip: a failed write also drops the calibrated flag
save_calibration_uncalibrates(s, io) ==
    LET c == [s EXCEPT !.saves = @ + 1] IN
    IF ~c.calibrated \/ c.calibration_landmarks = None
    THEN [c EXCEPT !.ret = FALSE]
    ELSE CASE io = "ok"         -> [c EXCEPT !.file = pickle_dump(c.calibration_landmarks),
                                             !.ret = TRUE]
           [] io = "open_fails" -> [c EXCEPT !.calibrated = FALSE, !.ret = FALSE]
           [] io = "dump_fails" -> [c EXCEPT !.file = Corrupt, !.calibrated = FALSE,
                                             !.ret = FALSE]

save_calibration(s, io) ==
    LET c == [s EXCEPT !.saves = @ + 1] IN
    IF ~c.calibrated \/ c.calibration_landmarks = None
    THEN [c EXCEPT !.ret = FALSE]
    ELSE CASE io = "ok"         -> [c EXCEPT !.file = pickle_dump(c.calibration_landmarks),
                                             !.ret = TRUE]
           [] io = "open_fails" -> [c EXCEPT !.ret = FALSE]
           [] io = "dump_fails" -> [c EXCEPT !.file = Corrupt, !.ret = FALSE]

(***************************************************************************)
(* SlouchDetector._complete_calibration: sum every coordinate over the    *)
(* samples in order, then divide by the number of samples.                *)
(***************************************************************************)
RECURSIVE SumCoord(_, _, _, _)
SumCoord(samples, key, i, n) ==
    IF n = 0 THEN Rat(0, 1)
    ELSE RAdd(SumCoord(samples, key, i, n - 1), samples[n][key][i])

\* slip: the accumulator starts from the first sample instead of zeros
AverageSeeded(samples) ==
    [key \in DOMAIN samples[1] |->
        [i \in 1..3 |-> RDivInt(RAdd(samples[1][key][i],
                                     SumCoord(samples, key, i, Len(samples))),
                                Len(samples))]]

Average(samples) ==
    [key \in DOMAIN samples[1] |->
        [i \in 1..3 |-> RDivInt(SumCoord(samples, key, i, Len(samples)), Len(samples))]]

\* slip: no early return when there are no samples
complete_calibration_unguarded(s, io) ==
    save_calibration(
        [s EXCEPT !.calibration_landmarks =
                      IF Len(s.calibration_samples) = 0 THEN EmptyDict
                      ELSE Average(s.calibration_samples),
                  !.calibrated = TRUE,
                  !.completions = @ + 1],
        io)

\* slip: the samples are dropped once they are averaged
complete_calibration_discards(s, io) ==
    IF Len(s.calibration_samples) = 0
    THEN s
    ELSE save_calibration(
             [s EXCEPT !.calibration_landmarks = Average(s.calibration_samples),
                       !.calibrated = TRUE,
                       !.calibration_samples = << >>,
                       !.completions = @ + 1],
             io)

complete_calibration(s, io) ==
    IF Len(s.calibration_samples) = 0
    THEN s
    ELSE save_calibration(
             [s EXCEPT !.calibration_landmarks = Average(s.calibration_samples),
                       !.calibrated = TRUE,
                       !.completions = @ + 1],
             io)

(***************************************************************************)
(* SlouchDetector.start_calibration                                       *)
(***************************************************************************)
\* slip: the samples of the interrupted session are kept
start_calibration_keeps(s, t) ==
    [s EXCEPT !.calibrated = FALSE,
              !.calibration_landmarks = None,
              !.calibration_countdown = COUNTDOWN,
              !.calibration_start_time = t]

\* slip: the baseline and the calibrated flag survive the start
start_calibration_keeps_baseline(s, t) ==
    [s EXCEPT !.calibration_countdown = COUNTDOWN,
              !.calibration_start_time = t,
              !.calibration_samples = << >>]

\* slip: the stored baseline is deleted with the one in memory
start_calibration_erases(s, t) ==
    [s EXCEPT !.calibrated = FALSE,
              !.calibration_landmarks = None,
              !.calibration_countdown = COUNTDOWN,
              !.calibration_start_time = t,
              !.calibration_samples = << >>,
              !.file = Missing]

\* slip: the cached score is reset with the calibration
start_calibration_clears_cache(s, t) ==
    [s EXCEPT !.calibrated = FALSE,
              !.calibration_landmarks = None,
              !.calibration_countdown = COUNTDOWN,
              !.calibration_start_time = t,
              !.calibration_samples = << >>,
              !.last_slouch_calculation_time = 0,
              !.last_slouch_percentage = Rat(0, 1),
              !.last_slouch_detected = FALSE]

start_calibration(s, t) ==
    [s EXCEPT !.calibrated = FALSE,
              !.calibration_landmarks = None,
              !.calibration_countdown = COUNTDOWN,
              !.calibration_start_time = t,
              !.calibration_samples = << >>]

(***************************************************************************)
(* SlouchDetector.update_calibration, branch by branch.                   *)
(***************************************************************************)
\* slip: the countdown is never cleared
CountdownPhase_stuck(s, t) ==
    LET elapsed   == t - s.calibration_start_time
        remaining == s.calibration_countdown - elapsed
    IN IF remaining <= 0
       THEN [s EXCEPT !.calibration_start_time = t,
                      !.calibration_samples = << >>,
                      !.last_sample_time = t,
                      !.ret = FALSE]
       ELSE [s EXCEPT !.ret = FALSE]

\* slip: the window is timed from start_calibration, not from the end of the countdown
CountdownPhase_keeps_start(s, t) ==
    LET elapsed   == t - s.calibration_start_time
        remaining == s.calibration_countdown - elapsed
    IN IF remaining <= 0
       THEN [s EXCEPT !.calibration_countdown = 0,
                      !.calibration_samples = << >>,
                      !.last_sample_time = t,
                      !.ret = FALSE]
       ELSE [s EXCEPT !.ret = FALSE]

\* lines 49-61: the countdown phase
CountdownPhase(s, t) ==
    LET elapsed   == t - s.calibration_start_time
        remaining == s.calibration_countdown - elapsed
    IN IF remaining <= 0
       THEN [s EXCEPT !.calibration_countdown = 0,
                      !.calibration_start_time = t,
                      !.calibration_samples = << >>,
                      !.last_sample_time = t,
                      !.ret = FALSE]
       ELSE [s EXCEPT !.ret = FALSE]

\* lines 65-73: inside the sampling window
\* slip: the spacing test is left out
SamplingWindow_unspaced(s, pose, t) ==
    IF Truthy(pose)
    THEN LET landmarks == extract_posture_landmarks(pose)
             c == [s EXCEPT !.last_sample_time = t, !.ret = FALSE]
         IN IF NonEmpty(landmarks)
            THEN [c EXCEPT !.calibration_samples = Append(@, landmarks)]
            ELSE c
    ELSE [s EXCEPT !.ret = FALSE]

SamplingWindow(s, pose, t) ==
    IF t - s.last_sample_time >= sample_interval /\ Truthy(pose)
    THEN LET landmarks == extract_posture_landmarks(pose)
             c == [s EXCEPT !.last_sample_time = t, !.ret = FALSE]
         IN IF NonEmpty(landmarks)
            THEN [c EXCEPT !.calibration_samples = Append(@, landmarks)]
            ELSE c
    ELSE [s EXCEPT !.ret = FALSE]

\* lines 77-81: the forced final sample
\* slip: the final sample is taken even when samples exist
FinalSample_always(s, pose) ==
    IF Truthy(pose)
    THEN LET landmarks == extract_posture_landmarks(pose)
         IN IF NonEmpty(landmarks)
            THEN [s EXCEPT !.calibration_samples = Append(@, landmarks)]
            ELSE s
    ELSE s

FinalSample(s, pose) ==
    IF Truthy(pose) /\ Len(s.calibration_samples) = 0
    THEN LET landmarks == extract_posture_landmarks(pose)
         IN IF NonEmpty(landmarks)
            THEN [s EXCEPT !.calibration_samples = Append(@, landmarks)]
            ELSE s
    ELSE s

\* lines 74-94: at or after the end of the sampling window
\* slip: completion is not guarded by `not self.calibrated`
WindowEnd_recompletes(s, pose, t, io) ==
    LET c == FinalSample(s, pose) IN
    IF Len(c.calibration_samples) > 0
    THEN [complete_calibration(c, io) EXCEPT !.ret = TRUE]
    ELSE IF c.calibrated
         THEN [c EXCEPT !.ret = TRUE]
         ELSE [c EXCEPT !.calibration_start_time = t, !.ret = FALSE]

\* slip: the tick that ends the window is sampled like any other
WindowEnd_resamples(s, pose, t, io) ==
    LET c == IF Truthy(pose) /\ NonEmpty(extract_posture_landmarks(pose))
             THEN [s EXCEPT !.calibration_samples =
                                Append(@, extract_posture_landmarks(pose))]
             ELSE s
    IN
    IF ~c.calibrated /\ Len(c.calibration_samples) > 0
    THEN [complete_calibration(c, io) EXCEPT !.ret = TRUE]
    ELSE IF c.calibrated
         THEN [c EXCEPT !.ret = TRUE]
         ELSE [c EXCEPT !.calibration_start_time = t, !.ret = FALSE]

\* slip: the window is not restarted when it ends without samples
WindowEnd_noretry(s, pose, t, io) ==
    LET c == FinalSample(s, pose) IN
    IF ~c.calibrated /\ Len(c.calibration_samples) > 0
    THEN [complete_calibration(c, io) EXCEPT !.ret = TRUE]
    ELSE IF c.calibrated
         THEN [c EXCEPT !.ret = TRUE]
         ELSE [c EXCEPT !.ret = FALSE]

WindowEnd(s, pose, t, io) ==
    LET c == FinalSample(s, pose) IN
    IF ~c.calibrated /\ Len(c.calibration_samples) > 0
    THEN [complete_calibration(c, io) EXCEPT !.ret = TRUE]
    ELSE IF c.calibrated
         THEN [c EXCEPT !.ret = TRUE]
         ELSE [c EXCEPT !.calibration_start_time = t, !.ret = FALSE]

\* slip: a tick exactly at the end of the window still samples
update_calibration_inclusive(s, pose, t, io) ==
    IF s.calibration_countdown > 0
    THEN CountdownPhase(s, t)
    ELSE IF t - s.calibration_start_time <= calibration_duration
         THEN SamplingWindow(s, pose, t)
         ELSE WindowEnd(s, pose, t, io)

\* slip: no return while the countdown is still running
update_calibration_fallthrough(s, pose, t, io) ==
    LET c == IF s.calibration_countdown > 0 THEN CountdownPhase(s, t) ELSE s IN
    IF c.calibration_countdown = 0 /\ s.calibration_countdown > 0
    THEN c
    ELSE IF t - c.calibration_start_time < calibration_duration
         THEN SamplingWindow(c, pose, t)
         ELSE WindowEnd(c, pose, t, io)

update_calibration(s, pose, t, io) ==
    IF s.calibration_countdown > 0
    THEN CountdownPhase(s, t)
    ELSE IF t - s.calibration_start_time < calibration_duration
         THEN SamplingWindow(s, pose, t)
         ELSE WindowEnd(s, pose, t, io)

(***************************************************************************)
(* SlouchDetector._calculate_slouch, term by term.  Index 1 is x, 2 is y. *)
(***************************************************************************)
\* shoulder_factor = 0.8
shoulder_factor == Rat(4, 5)
\* angle_factor = 0.1
angle_factor == Rat(1, 10)
\* distance_factor = 0.4
distance_factor == Rat(2, 5)
\* the floor 0.001 of the calibrated nose-neck distance, in units of 0.01
DistanceFloor == Rat(1, 10)

\* the keys of the baseline that _calculate_slouch subscripts
ScoredKeys == {"left_shoulder", "right_shoulder", "nose", "neck"}

\* SlouchDetector._squared_distance on the x, y coordinates
squared_distance(point1, point2) ==
    LET dx == RSub(point1[1], point2[1])
        dy == RSub(point1[2], point2[2])
    IN RAdd(RMul(dx, dx), RMul(dy, dy))

\* slip: the two differences are summed but not halved
avg_shoulder_diff_sum(cal, cur) ==
    RAdd(RSub(cur.left_shoulder[2], cal.left_shoulder[2]),
         RSub(cur.right_shoulder[2], cal.right_shoulder[2]))

\* lines 210-212
avg_shoulder_diff(cal, cur) ==
    RDivInt(RAdd(RSub(cur.left_shoulder[2], cal.left_shoulder[2]),
                 RSub(cur.right_shoulder[2], cal.right_shoulder[2])), 2)

\* lines 216-223: the neck-to-nose vector of a snapshot
neck_nose_vector(lm) == <<RSub(lm.nose[1], lm.neck[1]), RSub(lm.nose[2], lm.neck[2])>>

\* np.linalg.norm of a 2-vector
Norm(v) == RSqrt(RAdd(RMul(v[1], v[1]), RMul(v[2], v[2])))

\* lines 226-237
angle_diff(cal, cur) ==
    LET cv == neck_nose_vector(cal)
        lv == neck_nose_vector(cur)
        cn == Norm(cv)
        ln == Norm(lv)
    IN IF RLess(Rat(0, 1), cn) /\ RLess(Rat(0, 1), ln)
       THEN LET cu == <<RDiv(cv[1], cn), RDiv(cv[2], cn)>>
                lu == <<RDiv(lv[1], ln), RDiv(lv[2], ln)>>
            IN ArccosDegrees(Clip(RAdd(RMul(cu[1], lu[1]), RMul(cu[2], lu[2]))))
       ELSE Rat(0, 1)

\* slip: no floor for a calibrated distance of zero
cal_nose_neck_dist_unfloored(cal) ==
    LET sq == squared_distance(cal.nose, cal.neck)
    IN IF RLess(Rat(0, 1), sq) THEN RSqrt(sq) ELSE Rat(0, 1)

\* line 253
cal_nose_neck_dist(cal) ==
    LET sq == squared_distance(cal.nose, cal.neck)
    IN IF RLess(Rat(0, 1), sq) THEN RSqrt(sq) ELSE DistanceFloor

\* line 254
curr_nose_neck_dist(cur) ==
    LET sq == squared_distance(cur.nose, cur.neck)
    IN IF RLess(Rat(0, 1), sq) THEN RSqrt(sq) ELSE Rat(0, 1)

\* line 255
dist_ratio(cal, cur) ==
    LET cd == cal_nose_neck_dist(cal)
    IN IF RLess(Rat(0, 1), cd) THEN RDiv(curr_nose_neck_dist(cur), cd) ELSE Rat(1, 1)

\* lines 264-266
ref_distance(cal) ==
    RAbs(RSub(cal.nose[2], RDivInt(RAdd(cal.left_shoulder[2], cal.right_shoulder[2]), 2)))

\* slip: a reference distance of zero is floored like the nose-neck distance
shoulder_percentage_floored(cal, cur) ==
    LET ref == IF RLess(Rat(0, 1), ref_distance(cal)) THEN ref_distance(cal) ELSE DistanceFloor
    IN RMul(RDiv(avg_shoulder_diff(cal, cur), ref), Rat(100, 1))

\* slip: the sign of the shoulder term is reversed
shoulder_percentage_reversed(cal, cur) ==
    LET ref == ref_distance(cal)
    IN IF RLess(Rat(0, 1), ref)
       THEN RMul(RDiv(avg_shoulder_diff(cal, cur), ref), Rat(-100, 1))
       ELSE Rat(0, 1)

\* line 268
shoulder_percentage(cal, cur) ==
    LET ref == ref_distance(cal)
    IN IF RLess(Rat(0, 1), ref)
       THEN RMul(RDiv(avg_shoulder_diff(cal, cur), ref), Rat(100, 1))
       ELSE Rat(0, 1)

\* line 269
angle_percentage(cal, cur) == RMul(angle_diff(cal, cur), Rat(2, 1))

\* slip: a growing distance is counted too
distance_percentage_signed(cal, cur) ==
    RMul(RSub(Rat(1, 1), dist_ratio(cal, cur)), Rat(100, 1))

\* line 270
distance_percentage(cal, cur) ==
    LET ratio == dist_ratio(cal, cur)
    IN IF RLess(ratio, Rat(1, 1))
       THEN RMul(RSub(Rat(1, 1), ratio), Rat(100, 1))
       ELSE Rat(0, 1)

\* lines 273-277
slouch_percentage(cal, cur) ==
    RAdd(RAdd(RMul(shoulder_percentage(cal, cur), shoulder_factor),
              RMul(angle_percentage(cal, cur), angle_factor)),
         RMul(distance_percentage(cal, cur), distance_factor))

\* slip: the comparison with the threshold is not strict
calculate_slouch_nonstrict(cal, cur, threshold) ==
    LET pct == The({slouch_percentage(cal, cur)})
    IN [detected |-> ~RLess(pct, threshold), percentage |-> pct]

\* the pair (slouch_detected, slouch_percentage) that _calculate_slouch returns
calculate_slouch(cal, cur, threshold) ==
    LET pct == The({slouch_percentage(cal, cur)})
    IN [detected |-> RLess(threshold, pct), percentage |-> pct]

(***************************************************************************)
(* SlouchDetector.check_slouching                                         *)
(***************************************************************************)
\* self.slouch_calculation_interval = 0.1 seconds
slouch_calculation_interval == 2

\* lines 197-203 and 309: both drawing helpers leave the frame to cv2, and the
\* one for a percentage that is not an alert divides it by the threshold, which
\* raises for a threshold of 0 (ZeroDivisionError, or ValueError / OverflowError
\* from int() when the percentage is a numpy float); otherwise the cached
\* decision is returned
Draw(s) ==
    IF ~s.last_slouch_detected /\ s.threshold_percentage = Rat(0, 1)
    THEN [s EXCEPT !.ret = FALSE, !.exc = "DrawError"]
    ELSE [s EXCEPT !.ret = s.last_slouch_detected, !.exc = NoExc]

\* slip: the time of the recomputation is not recorded
Recompute_untimed(s, current_landmarks, t) ==
    LET r == The({calculate_slouch(s.calibration_landmarks, current_landmarks,
                                   s.threshold_percentage)})
    IN [s EXCEPT !.last_slouch_detected = r.detected,
                 !.last_slouch_percentage = r.percentage]

\* lines 194-195: the recomputation
Recompute(s, current_landmarks, t) ==
    LET r == The({calculate_slouch(s.calibration_landmarks, current_landmarks,
                                   s.threshold_percentage)})
    IN [s EXCEPT !.last_slouch_detected = r.detected,
                 !.last_slouch_percentage = r.percentage,
                 !.last_slouch_calculation_time = t]

\* slip: every call recomputes
Due186_always(s, t) == t >= s.last_slouch_calculation_time

\* line 186: a recomputation is due
Due186(s, t) == t - s.last_slouch_calculation_time >= slouch_calculation_interval

\* slip: a call that returns early still advances the time of the cache
check_slouching_ticks(s, pose, t) ==
    IF ~s.calibrated \/ ~Truthy(pose)
    THEN [s EXCEPT !.ret = FALSE, !.exc = NoExc, !.last_slouch_calculation_time = t]
    ELSE IF Due186(s, t)
         THEN LET current_landmarks == extract_posture_landmarks(pose)
              IN IF ~NonEmpty(current_landmarks)
                    \/ s.calibration_landmarks = None \/ ~NonEmpty(s.calibration_landmarks)
                 THEN [s EXCEPT !.ret = FALSE, !.exc = NoExc]
                 ELSE IF ~(ScoredKeys \subseteq DOMAIN s.calibration_landmarks)
                      THEN [s EXCEPT !.ret = FALSE, !.exc = "KeyError"]
                      ELSE Draw(Recompute(s, current_landmarks, t))
         ELSE Draw(s)

\* a baseline key that _calculate_slouch subscripts and the stored dict lacks
\* raises KeyError out of check_slouching, which then returns nothing: ret is
\* left false
check_slouching(s, pose, t) ==
    IF ~s.calibrated \/ ~Truthy(pose)
    THEN [s EXCEPT !.ret = FALSE, !.exc = NoExc]
    ELSE IF Due186(s, t)
         THEN LET current_landmarks == extract_posture_landmarks(pose)
              IN IF ~NonEmpty(current_landmarks)
                    \/ s.calibration_landmarks = None \/ ~NonEmpty(s.calibration_landmarks)
                 THEN [s EXCEPT !.ret = FALSE, !.exc = NoExc]
                 ELSE IF ~(ScoredKeys \subseteq DOMAIN s.calibration_landmarks)
                      THEN [s EXCEPT !.ret = FALSE, !.exc = "KeyError"]
                      ELSE Draw(Recompute(s, current_landmarks, t))
         ELSE Draw(s)

(***************************************************************************)
(* SlouchDetector.load_calibration and __init__                           *)
(***************************************************************************)
\* slip: the loaded baseline is stored but the detector is not marked calibrated
load_calibration_unmarked(s) ==
    IF s.file \in {Missing, Corrupt}
    THEN [s EXCEPT !.ret = FALSE]
    ELSE [s EXCEPT !.calibration_landmarks = pickle_load(s.file), !.ret = FALSE]

load_calibration(s) ==
    IF s.file \in {Missing, Corrupt}
    THEN [s EXCEPT !.ret = FALSE]
    ELSE LET loaded == pickle_load(s.file) IN
         IF NonEmpty(loaded)
         THEN [s EXCEPT !.calibration_landmarks = loaded, !.calibrated = TRUE, !.ret = TRUE]
         ELSE [s EXCEPT !.calibration_landmarks = loaded, !.ret = FALSE]

Construct(content, threshold) ==
    load_calibration(
        [calibrated             |-> FALSE,
         calibration_landmarks  |-> None,
         calibration_countdown  |-> 0,
         calibration_start_time |-> 0,
         calibration_samples    |-> << >>,
         last_sample_time       |-> 0,
         file                   |-> content,
         completions            |-> 0,
         saves                  |-> 0,
         ret                    |-> FALSE,
         threshold_percentage         |-> threshold,
         last_slouch_calculation_time |-> 0,
         last_slouch_percentage       |-> Rat(0, 1),
         last_slouch_detected         |-> FALSE,
         exc                          |-> NoExc])

\* what the file may hold before the first construction
InitialFiles == {Missing, Corrupt, pickle_dump(extract_posture_landmarks(PoseA))}

\* the threshold the application constructs the detector with, in percent
DefaultThreshold == Rat(15, 1)

(***************************************************************************)
(* The state machine: the host calls start_calibration and                *)
(* update_calibration one at a time; each call reads the clock once.      *)
(***************************************************************************)
\* the values time.time() may return: in every period of calibration_duration
\* the first FineSpan units one by one, and the last unit before the next period
ClockReadings ==
    {t \in StartTime..(StartTime + Horizon) :
        \/ (t - StartTime) % calibration_duration <= FineSpan
        \/ (t - StartTime) % calibration_duration = calibration_duration - 1}

\* the clock never runs backwards, and two calls are at most one period and
\* FineSpan units apart
Later == {t \in ClockReadings : t >= now /\ t <= now + calibration_duration + FineSpan}

Apply(r) ==
    /\ calibrated' = r.calibrated
    /\ calibration_landmarks' = r.calibration_landmarks
    /\ calibration_countdown' = r.calibration_countdown
    /\ calibration_start_time' = r.calibration_start_time
    /\ calibration_samples' = r.calibration_samples
    /\ last_sample_time' = r.last_sample_time
    /\ file' = r.file
    /\ ret' = r.ret
    /\ threshold_percentage' = r.threshold_percentage
    /\ last_slouch_calculation_time' = r.last_slouch_calculation_time
    /\ last_slouch_percentage' = r.last_slouch_percentage
    /\ last_slouch_detected' = r.last_slouch_detected
    /\ exc' = r.exc

\* bookkeeping of the held samples, read off the program state
TrackSamples ==
    /\ samplingBegan' = IF op' = "start_calibration" THEN 0
                        ELSE IF calibration_countdown > 0 /\ calibration_countdown' = 0
                             THEN now' ELSE samplingBegan
    /\ lastAccept' = IF calibration_samples' = << >> THEN 0
                     ELSE IF Len(calibration_samples') = Len(calibration_samples) + 1
                          THEN now' ELSE lastAccept
    /\ stale' = IF calibration_samples' = << >> THEN FALSE
                ELSE IF op' = "start_calibration" THEN TRUE ELSE stale

\* no check_slouching call is in flight
Idle == [idle |-> TRUE]

\* stored_processing_delay is not an attribute of the camera; when it is, the
\* field holds [delay |-> the stored value]
Absent == [absent |-> TRUE]

\* Camera.__init__ has made processing_delay 0.5 s, here in milliseconds
DefaultDelay == 500

\* the Camera fields after Camera.__init__
CameraInit ==
    [is_calibrating |-> FALSE,
     processing_delay |-> DefaultDelay,
     enable_slouch_detection |-> FALSE,
     stored_processing_delay |-> Absent]

\* the window after start_application: the flag saved at line 951 and the
\* status label written by the check_calibration_status of line 952, whose
\* other assignments change nothing on a camera just constructed
Started(is_calibrated) ==
    [temp_enable_slouch_detection |-> FALSE,
     calibration_timer |-> FALSE,
     calibration_status |-> IF is_calibrated THEN "Calibrated" ELSE "Not calibrated",
     pc |-> "idle"]

\* the variables hold a freshly constructed detector
Constructed(r) ==
    /\ calibrated = r.calibrated
    /\ calibration_landmarks = r.calibration_landmarks
    /\ calibration_countdown = r.calibration_countdown
    /\ calibration_start_time = r.calibration_start_time
    /\ calibration_samples = r.calibration_samples
    /\ last_sample_time = r.last_sample_time
    /\ file = r.file
    /\ threshold_percentage = r.threshold_percentage
    /\ last_slouch_calculation_time = r.last_slouch_calculation_time
    /\ last_slouch_percentage = r.last_slouch_percentage
    /\ last_slouch_detected = r.last_slouch_detected
    /\ exc = r.exc

\* SlouchDetector(threshold) constructed at StartTime over a file holding content
Boot(content, threshold) ==
    /\ now = StartTime
    /\ Constructed(Construct(content, threshold))
    /\ op = "init"
    /\ ret = FALSE
    /\ completions = 0
    /\ saves = 0
    /\ started = FALSE
    /\ samplingBegan = 0
    /\ lastAccept = 0
    /\ stale = FALSE
    /\ discarded = FALSE
    /\ scored = None
    /\ latest = None
    /\ persisted = None
    /\ call = Idle
    /\ camera = CameraInit
    /\ gui = Started(Construct(content, threshold).calibrated)
    /\ proc = Idle
    /\ before = None
    /\ startedAt = 0

Init == \E content \in InitialFiles : Boot(content, DefaultThreshold)

\* the call start_calibration() that reads the clock as t, on the detector
StartAt(t) ==
    /\ now' = t
    /\ \E r \in {start_calibration(Self, t)} : Apply([r EXCEPT !.ret = FALSE])
    /\ op' = "start_calibration"
    /\ completions' = 0
    /\ saves' = 0
    /\ started' = TRUE
    /\ discarded' = (discarded \/ (started /\ ~calibrated /\ Len(calibration_samples) > 0))
    /\ scored' = scored
    /\ TrackSamples
    /\ UNCHANGED <<latest, persisted, call>>

\* one call start_calibration() that reads the clock as t
Start(t) == StartAt(t) /\ UNCHANGED <<host, startedAt>>

StartCalibration == \E t \in Later : Start(t)

\* the results the call can have: one for each outcome of the I/O it performs
Outcomes(s, pose, t) ==
    LET quiet == The({update_calibration(s, pose, t, "ok")})
    IN IF quiet.saves = s.saves
       THEN {quiet}
       ELSE {update_calibration(s, pose, t, io) : io \in IoOutcomes}

\* the call update_calibration(frame, pose) that reads the clock as t ends in r
UpdateTo(r, t) ==
    /\ now' = t
    /\ Apply(r)
    /\ completions' = r.completions
    /\ saves' = r.saves
    /\ op' = "update_calibration"
    /\ UNCHANGED <<started, discarded, scored, call>>
    /\ TrackSamples

\* one call update_calibration(frame, pose) that reads the clock as t
Update(pose, t) ==
    /\ \E r \in Outcomes(Self, pose, t) : UpdateTo(r, t)
    /\ UNCHANGED <<latest, persisted, host, startedAt>>

UpdateCalibration == \E t \in Later, pose \in PoseInputs : Update(pose, t)

Next == StartCalibration \/ UpdateCalibration

Spec == Init /\ [][Next]_vars

(***************************************************************************)
(* The processing loop of Camera._process_pose_landmarks under a settled  *)
(* input: update_calibration is called only while Camera.is_calibrating,  *)
(* that is from Camera.start_calibration until a call returns true, and   *)
(* from some point on it is called at every clock reading with a valid    *)
(* pose.  Since the clock of the model stops at StartTime + Horizon,      *)
(* restarts, poses without a snapshot and skipped readings are allowed    *)
(* only while the countdown and the window they leave behind still fit.   *)
(***************************************************************************)
\* Camera.is_calibrating: set by start_calibration, cleared when
\* update_calibration returns true
Calibrating == started /\ completions = 0

\* the clock reading that follows now
NextReading == CHOOSE t \in ClockReadings : t > now /\ \A u \in ClockReadings : u > now => t <= u

\* the time by which the session ends if the clock is read at every reading
Due ==
    IF calibrated THEN now
    ELSE IF calibration_countdown > 0
         THEN calibration_start_time + calibration_countdown + calibration_duration
         ELSE calibration_start_time + calibration_duration

Fits == Due <= StartTime + Horizon

LiveStart == StartCalibration /\ Fits'

\* the poses of the settled loop: absent, without landmarks, or the upright pose
LivePoses == {None, NoLandmarkPose, PoseA}

LiveUpdate ==
    /\ Calibrating
    /\ \E t \in Later, pose \in LivePoses : Update(pose, t)
    /\ Fits'

Tick ==
    /\ Calibrating
    /\ \E t \in ClockReadings : t > now
    /\ \E pose \in ValidPoses \cap LivePoses : Update(pose, NextReading)

LiveNext == LiveStart \/ LiveUpdate \/ Tick

\* the settled loop is followed from a detector without stored calibration
LiveInit == Init /\ file = Missing

LiveSpec == LiveInit /\ [][LiveNext]_vars /\ WF_vars(Tick)

(***************************************************************************)
(* The scorer: a detector constructed over any stored content and with    *)
(* any threshold, on which the host calls check_slouching and             *)
(* start_calibration at clock readings one unit apart.                    *)
(***************************************************************************)
\* the clock of the scorer is not advanced past StartTime + ScoreHorizon
ScoreHorizon == 4

\* a stored dict that lacks keys of a snapshot
PartialBaseline == [k \in {"nose"} |-> extract_posture_landmarks(PoseA)[k]]

\* what the file may hold when the detector is constructed
StoredFiles ==
    {Missing, Corrupt,
     pickle_dump(EmptyDict),
     pickle_dump(PartialBaseline),
     pickle_dump(extract_posture_landmarks(PoseA)),
     pickle_dump(extract_posture_landmarks(PoseFlat))}

\* thresholds the detector is constructed with, in percent
Thresholds == {Rat(0, 1), Rat(15, 1), Rat(20, 1)}

\* the pose_landmarks arguments of check_slouching
ScorePoses == {None, NoLandmarkPose, PoseA, PoseDrop, PoseTilt, PoseFlat, PoseNear}

ScoreLater ==
    {t \in now..(now + slouch_calculation_interval) : t <= StartTime + ScoreHorizon}

\* one call check_slouching(frame, pose) that reads the clock as t
Check(pose, t) ==
    /\ now' = t
    /\ \E r \in {check_slouching(Self, pose, t)} :
         /\ Apply(r)
         /\ scored' = IF calibrated /\ Truthy(pose) /\ Due186(Self, t)
                          /\ NonEmpty(extract_posture_landmarks(pose))
                          /\ r.exc # "KeyError"
                       THEN extract_posture_landmarks(pose) ELSE scored
    /\ op' = "check_slouching"
    /\ UNCHANGED <<completions, saves, started, discarded, samplingBegan, lastAccept, stale,
                   latest, persisted, call, host, startedAt>>

CheckSlouching == \E t \in ScoreLater, pose \in ScorePoses : Check(pose, t)

ScoreStart == \E t \in ScoreLater : Start(t)

ScoreInit == \E content \in StoredFiles, threshold \in Thresholds : Boot(content, threshold)

ScoreNext == CheckSlouching \/ ScoreStart

ScoreSpec == ScoreInit /\ [][ScoreNext]_vars

(***************************************************************************)
(* Recalibration: a detector that loaded a stored baseline is scored,     *)
(* started again and calibrated anew while check_slouching keeps being    *)
(* called.                                                                *)
(***************************************************************************)
\* the clock of the recalibration is not advanced past StartTime + RecalHorizon
RecalHorizon == 122

RecalLater == {t \in Later : t <= StartTime + RecalHorizon}

\* the poses of the recalibration: absent, upright, shoulders dropped
RecalPoses == {None, PoseA, PoseDrop}

RecalStart == \E t \in RecalLater : Start(t)

RecalUpdate == \E t \in RecalLater, pose \in RecalPoses : Update(pose, t)

RecalCheck == \E t \in RecalLater, pose \in RecalPoses : Check(pose, t)

RecalInit == Boot(pickle_dump(extract_posture_landmarks(PoseA)), DefaultThreshold)

RecalNext == RecalStart \/ RecalUpdate \/ RecalCheck

RecalSpec == RecalInit /\ [][RecalNext]_vars

(***************************************************************************)
(* Restarts: the process ends and a new detector is constructed over the  *)
(* file the old one left behind, between calibrations whose saves succeed *)
(* or fail.                                                               *)
(***************************************************************************)
\* the clock of the restarts is not advanced past StartTime + PersistHorizon
PersistHorizon == 124

PersistLater == {t \in Later : t <= StartTime + PersistHorizon}

\* the poses of the calibrations: absent, upright, slouched
PersistPoses == {None, PoseA, PoseB}

PersistStart == \E t \in PersistLater : Start(t)

\* one call update_calibration(frame, pose); when it completes a calibration
\* the baseline and the outcome io of its save are recorded
PersistUpdate ==
    \E t \in PersistLater, pose \in PersistPoses, io \in IoOutcomes :
        \E r \in {update_calibration(Self, pose, t, io)} :
            /\ UpdateTo(r, t)
            /\ latest' = IF r.completions > completions
                          THEN r.calibration_landmarks ELSE latest
            /\ persisted' = IF r.saves > saves
                             THEN CASE io = "ok"         -> r.calibration_landmarks
                                    [] io = "open_fails" -> persisted
                                    [] io = "dump_fails" -> Corrupt
                             ELSE persisted
            /\ UNCHANGED <<host, startedAt>>

\* the process is started again: SlouchDetector(threshold) over the file as it is
Restart ==
    \E t \in PersistLater :
        /\ now' = t
        /\ Apply([Construct(file, threshold_percentage) EXCEPT !.ret = FALSE])
        /\ op' = "init"
        /\ completions' = 0
        /\ saves' = 0
        /\ started' = FALSE
        /\ samplingBegan' = 0
        /\ lastAccept' = 0
        /\ stale' = FALSE
        /\ discarded' = FALSE
        /\ scored' = None
        /\ UNCHANGED <<latest, persisted, call, host, startedAt>>

PersistInit == Init

PersistNext == PersistStart \/ PersistUpdate \/ Restart

PersistSpec == PersistInit /\ [][PersistNext]_vars

(***************************************************************************)
(* Two threads: the camera thread runs check_slouching                    *)
(* (Camera._camera_thread_function) while the GUI thread calls            *)
(* start_calibration (HabitKickerGUI.calibrate_posture); no lock is taken.    *)
(* A thread switch can fall between any two reads of                      *)
(* self.calibration_landmarks; update_calibration, and with it the        *)
(* completion of a calibration, runs on the camera thread itself.         *)
(***************************************************************************)
\* the clock of the two threads is not advanced past StartTime + ThreadHorizon
ThreadHorizon == 4

ThreadLater ==
    {t \in now..(now + slouch_calculation_interval) : t <= StartTime + ThreadHorizon}

\* the poses the camera thread passes: absent, upright, shoulders dropped
ThreadPoses == {None, PoseA, PoseDrop}

\* the lines of _calculate_slouch that read self.calibration_landmarks, one
\* entry for each read
BaselineReads == <<210, 211, 217, 217, 218, 218, 242, 243, 264, 265, 266>>

\* lines 180-191 let the call through to _calculate_slouch
ReachesCalculate(s, pose, t) ==
    /\ s.calibrated /\ Truthy(pose)
    /\ Due186(s, t)
    /\ NonEmpty(extract_posture_landmarks(pose))
    /\ s.calibration_landmarks # None /\ NonEmpty(s.calibration_landmarks)

\* the camera thread calls check_slouching(frame, pose) and runs it up to the
\* first read of the baseline in _calculate_slouch, or to its return when the
\* call does not get there
CamEnter ==
    /\ call = Idle
    /\ \E t \in ThreadLater, pose \in ThreadPoses :
         IF ReachesCalculate(Self, pose, t)
         THEN /\ now' = t
              /\ op' = "check_slouching"
              /\ call' = [pose |-> pose, t |-> t,
                          current_landmarks |-> extract_posture_landmarks(pose),
                          reads |-> << >>]
              /\ UNCHANGED <<calibrated, calibration_landmarks, calibration_countdown,
                             calibration_start_time, calibration_samples, last_sample_time,
                             file, ret, completions, saves, started, samplingBegan,
                             lastAccept, stale, discarded, threshold_percentage,
                             last_slouch_calculation_time, last_slouch_percentage,
                             last_slouch_detected, exc, scored, latest, persisted,
                             host, startedAt>>
         ELSE Check(pose, t)

\* the next read of self.calibration_landmarks[...]: subscripting None raises
\* TypeError and a missing key KeyError, out of check_slouching
CamRead ==
    /\ call # Idle
    /\ Len(call.reads) < Len(BaselineReads)
    /\ IF calibration_landmarks = None
          \/ ~(ScoredKeys \subseteq DOMAIN calibration_landmarks)
       THEN /\ exc' = IF calibration_landmarks = None THEN "TypeError" ELSE "KeyError"
            /\ ret' = FALSE
            /\ call' = Idle
       ELSE /\ call' = [call EXCEPT !.reads = Append(@, calibration_landmarks)]
            /\ UNCHANGED <<exc, ret>>
    /\ UNCHANGED <<now, calibrated, calibration_landmarks, calibration_countdown,
                   calibration_start_time, calibration_samples, last_sample_time,
                   file, op, completions, saves, started, samplingBegan,
                   lastAccept, stale, discarded, threshold_percentage,
                   last_slouch_calculation_time, last_slouch_percentage,
                   last_slouch_detected, scored, latest, persisted, host, startedAt>>

\* all reads are done: lines 194-203 with the result computed from what was
\* read.  Only start_calibration writes the baseline on another thread, and it
\* writes None, so the mappings read are one and the same
CamReturn ==
    /\ call # Idle
    /\ Len(call.reads) = Len(BaselineReads)
    /\ \E r \in {Draw(Recompute([Self EXCEPT !.calibration_landmarks = call.reads[1]],
                                 call.current_landmarks, call.t))} :
         Apply([r EXCEPT !.calibration_landmarks = calibration_landmarks])
    /\ scored' = call.current_landmarks
    /\ call' = Idle
    /\ op' = "check_slouching"
    /\ UNCHANGED <<now, completions, saves, started, samplingBegan, lastAccept, stale,
                   discarded, latest, persisted, host, startedAt>>

\* the GUI thread calls start_calibration, between two steps of the camera thread
GuiStart == \E t \in ThreadLater : Start(t)

ThreadInit == Boot(pickle_dump(extract_posture_landmarks(PoseA)), DefaultThreshold)

ThreadNext == CamEnter \/ CamRead \/ CamReturn \/ GuiStart

ThreadSpec == ThreadInit /\ [][ThreadNext]_vars

(***************************************************************************)
(* One calibration ticked at the sampling rate: the clock is read again  *)
(* within the same 50 ms, or sample_interval later, or at the next whole  *)
(* number of windows since StartTime, so that a window can fill with      *)
(* samples.                                                               *)
(***************************************************************************)
\* the readings stay within SampleHorizon of StartTime
SampleHorizon == 180
\* start_calibration is called at StartTime or up to SampleStarts windows later
SampleStarts == 1

\* the first whole number of windows since StartTime that lies after now
NextWindow ==
    StartTime + calibration_duration * ((now - StartTime) \div calibration_duration + 1)

SampleLater ==
    {t \in {now, now + sample_interval, NextWindow} : t <= StartTime + SampleHorizon}

StartReadings == {StartTime + k * calibration_duration : k \in 0..SampleStarts}

\* the person is in view at every reading, except possibly at a whole number
\* of windows since StartTime
SamplePoses(t) ==
    IF (t - StartTime) % calibration_duration = 0 THEN {None, PoseA} ELSE {PoseA}

\* start_calibration(), with the reading of its clock recorded
SampleStart ==
    \E t \in SampleLater \cap StartReadings :
        /\ StartAt(t)
        /\ startedAt' = t
        /\ UNCHANGED host

SampleUpdate == \E t \in SampleLater : \E pose \in SamplePoses(t) : Update(pose, t)

SampleInit == Boot(Missing, DefaultThreshold)

SampleNext == SampleStart \/ SampleUpdate

SampleSpec == SampleInit /\ [][SampleNext]_vars

(***************************************************************************)
(* The application around the detector: calibrate_posture, its timer and  *)
(* the slouch check box on the GUI thread, the frames of the camera       *)
(* thread.  Camera.start_calibration is two statements on the GUI thread, *)
(* and the camera thread holds the result of update_calibration before it *)
(* acts on it; the threads share the camera and the detector unlocked.    *)
(***************************************************************************)
\* the readings stay within HostHorizon of StartTime
HostHorizon == 122

HostLater == {t \in Later : t <= StartTime + HostHorizon}

\* the frames that reach _process_pose_landmarks hold a pose (camera.py:279)
HostPoses == {PoseA}

\* the state of the detector and its bookkeeping
detector ==
    <<now, calibrated, calibration_landmarks, calibration_countdown,
      calibration_start_time, calibration_samples, last_sample_time,
      file, op, ret, completions, saves, started, samplingBegan,
      lastAccept, stale, discarded, threshold_percentage,
      last_slouch_calculation_time, last_slouch_percentage,
      last_slouch_detected, exc, scored, latest, persisted, call>>

\* gui.py 781-798 and camera.py 229: calibrate_posture up to the statement
\* self.is_calibrating = True of Camera.start_calibration
CalibratePosture ==
    /\ gui.pc = "idle"
    /\ gui' = [gui EXCEPT
                  !.temp_enable_slouch_detection = camera.enable_slouch_detection,
                  !.pc = "230"]
    /\ camera' = [camera EXCEPT
                     !.enable_slouch_detection = TRUE,
                     !.stored_processing_delay = [delay |-> camera.processing_delay],
                     !.processing_delay = 0,
                     !.is_calibrating = TRUE]
    /\ before' = IF gui.calibration_timer
                 THEN before
                 ELSE [processing_delay |-> camera.processing_delay,
                       enable_slouch_detection |-> camera.enable_slouch_detection]
    /\ UNCHANGED <<detector, proc, startedAt>>

\* camera.py 230 and gui.py 799-804: the detector's start_calibration, then
\* the status label and the timer of check_calibration_status
StartDetector ==
    /\ gui.pc = "230"
    /\ \E t \in HostLater : StartAt(t)
    /\ gui' = [gui EXCEPT !.calibration_status = "Calibrating...",
                          !.calibration_timer = TRUE,
                          !.pc = "idle"]
    /\ UNCHANGED <<camera, proc, before, startedAt>>

\* the camera with the delay that calibrate_posture stored put back
Restored(c) ==
    IF c.stored_processing_delay = Absent
    THEN c
    ELSE [c EXCEPT !.processing_delay = c.stored_processing_delay.delay,
                   !.stored_processing_delay = Absent]

\* gui.py 816-858: the callback of the calibration timer, which fires every
\* second while the timer runs
CheckCalibrationStatus ==
    /\ gui.pc = "idle"
    /\ gui.calibration_timer
    /\ IF calibrated
       THEN /\ camera' = [Restored(camera) EXCEPT
                            !.enable_slouch_detection = gui.temp_enable_slouch_detection]
            /\ gui' = [gui EXCEPT !.calibration_status = "Calibrated",
                                  !.calibration_timer = FALSE]
       ELSE IF ~camera.is_calibrating
            THEN /\ camera' = Restored(camera)
                 /\ gui' = [gui EXCEPT !.calibration_status = "Not calibrated",
                                       !.calibration_timer = FALSE]
            ELSE UNCHANGED <<camera, gui>>
    /\ UNCHANGED <<detector, proc, before, startedAt>>

\* gui.py 1056-1064: the slouch detection check box
ToggleSlouchDetection ==
    /\ gui.pc = "idle"
    /\ \E enabled \in BOOLEAN :
         camera' = [camera EXCEPT !.enable_slouch_detection = enabled]
    /\ UNCHANGED <<detector, gui, proc, before, startedAt>>

\* camera.py 279-280 and 210-211: a frame with a pose while slouch detection is
\* enabled.  While calibrating, update_calibration is called and its result
\* held in calibration_complete; otherwise the frame goes on to lines 220-225
ProcEnter ==
    /\ proc = Idle
    /\ camera.enable_slouch_detection
    /\ \E t \in HostLater, pose \in HostPoses :
         IF camera.is_calibrating
         THEN /\ \E r \in Outcomes(Self, pose, t) :
                   /\ UpdateTo(r, t)
                   /\ proc' = [pose |-> pose, calibration_complete |-> r.ret]
              /\ UNCHANGED <<latest, persisted, camera, gui, before, startedAt>>
         ELSE Check(pose, t)

\* camera.py 212-225: the rest of the frame.  A true result clears
\* is_calibrating and sets the detector's calibrated; check_slouching follows
ProcFinish ==
    /\ proc # Idle
    /\ \E t \in HostLater :
         LET s == IF proc.calibration_complete
                  THEN [Self EXCEPT !.calibrated = TRUE] ELSE Self
         IN /\ now' = t
            /\ \E r \in {check_slouching(s, proc.pose, t)} :
                 /\ Apply(r)
                 /\ scored' = IF s.calibrated /\ Truthy(proc.pose) /\ Due186(s, t)
                                  /\ NonEmpty(extract_posture_landmarks(proc.pose))
                                  /\ s.calibration_landmarks # None
                                  /\ r.exc # "KeyError"
                               THEN extract_posture_landmarks(proc.pose) ELSE scored
    /\ camera' = IF proc.calibration_complete
                 THEN [camera EXCEPT !.is_calibrating = FALSE] ELSE camera
    /\ proc' = Idle
    /\ op' = "check_slouching"
    /\ UNCHANGED <<completions, saves, started, discarded, samplingBegan, lastAccept,
                   stale, latest, persisted, call, gui, before, startedAt>>

\* no file, or the file of an earlier calibration
HostFiles == {Missing, pickle_dump(extract_posture_landmarks(PoseA))}

HostInit == \E content \in HostFiles : Boot(content, DefaultThreshold)

HostNext ==
    \/ CalibratePosture
    \/ StartDetector
    \/ CheckCalibrationStatus
    \/ ToggleSlouchDetection
    \/ ProcEnter
    \/ ProcFinish

HostSpec == HostInit /\ [][HostNext]_vars

(***************************************************************************)
(* Properties.                                                            *)
(***************************************************************************)
\* a call of update_calibration has just returned
Updated == op = "update_calibration"

\* C1: update_calibration computes a baseline or returns true only after a
\* start_calibration, a fully elapsed countdown and a sampling window; on a
\* detector that was never started it completes nothing.
C1_CompletionNeedsStart ==
    (completions > 0 \/ (Updated /\ ret))
        => /\ started
           /\ calibration_countdown = 0
           /\ samplingBegan > 0
           /\ now - samplingBegan >= calibration_duration

\* C2: while the countdown runs, and on the call that ends it, update_calibration
\* appends no sample and returns false; only calls made in the sampling phase
\* append.
C2_CountdownAppendsNothing ==
    [][(calibration_countdown > 0 /\ Updated')
          => /\ Len(calibration_samples') <= Len(calibration_samples)
             /\ calibration_samples' = << >>
             /\ ret' = FALSE
             /\ ~calibrated']_vars

\* the countdown of a started session has just been ended by a call
C2_Witness ==
    /\ started /\ Updated /\ ~ret
    /\ calibration_countdown = 0
    /\ samplingBegan = now
    /\ calibration_start_time = now
    /\ calibration_samples = << >>

\* C3: once a calibration has completed, every further update_calibration
\* returns true and changes neither the baseline nor the samples.
C3_CompleteIsIdempotent ==
    [][(completions > 0 /\ Updated')
          => /\ ret' = TRUE
             /\ calibrated'
             /\ calibration_landmarks' = calibration_landmarks
             /\ calibration_samples' = calibration_samples]_vars

\* a started session completed on its forced sample and was ticked again later
C3_Witness ==
    /\ started /\ Updated /\ ret
    /\ completions = 1
    /\ Len(calibration_samples) = 1
    /\ lastAccept >= calibration_start_time + calibration_duration
    /\ now > lastAccept

\* C4: start_calibration is a total reset (full countdown, no samples), no
\* sample is held while the countdown runs, and a baseline produced afterwards
\* is the mean of samples that were all accepted after the latest start.
C4_StartIsTotalReset ==
    /\ op = "start_calibration"
          => /\ calibration_countdown = COUNTDOWN
             /\ calibration_start_time = now
             /\ calibration_samples = << >>
             /\ ~calibrated
             /\ calibration_landmarks = None
    /\ (started /\ calibration_countdown > 0) => calibration_samples = << >>
    /\ (started /\ completions > 0)
          => /\ ~stale
             /\ lastAccept >= samplingBegan
             /\ calibration_landmarks = Average(calibration_samples)

\* a session that held samples was interrupted and the restarted one completed
C4_Witness ==
    /\ discarded
    /\ started /\ calibrated
    /\ completions = 1

\* poses that yield no snapshot
NoSnapshotPoses == {pose \in PoseInputs : ~NonEmpty(extract_posture_landmarks(pose))}

\* C5: in the sampling phase without samples, a call that supplies no valid
\* snapshot never completes; when the window has ended it returns false and
\* restarts the window at the current time.
C5_EmptyWindowRetries ==
    (calibration_countdown = 0 /\ ~calibrated /\ calibration_samples = << >>)
        => \A pose \in NoSnapshotPoses, t \in Later, io \in IoOutcomes :
              LET r == update_calibration(Self, pose, t, io) IN
                /\ r.ret = FALSE
                /\ ~r.calibrated
                /\ r.calibration_countdown = 0
                /\ r.calibration_samples = << >>
                /\ r.calibration_landmarks = calibration_landmarks
                /\ r.completions = completions
                /\ r.saves = saves
                /\ r.file = file
                /\ (t - calibration_start_time >= calibration_duration)
                      => r.calibration_start_time = t

\* a started session whose window ended without samples has been restarted
C5_Witness ==
    /\ started /\ Updated /\ ~ret
    /\ ~calibrated
    /\ calibration_countdown = 0
    /\ calibration_samples = << >>
    /\ calibration_start_time = now
    /\ now - samplingBegan >= calibration_duration

\* C7: a sample is accepted no earlier than sample_interval after the previous
\* one, and the first one no earlier than sample_interval after the sampling
\* phase began.
C7_SampleSpacing ==
    [][(Len(calibration_samples') = Len(calibration_samples) + 1)
          => IF Len(calibration_samples) = 0
             THEN now' - samplingBegan' >= sample_interval
             ELSE now' - lastAccept >= sample_interval]_vars

\* a call made less than sample_interval after an accepted sample appended nothing
C7_Witness ==
    /\ started /\ Updated
    /\ ~calibrated
    /\ calibration_countdown = 0
    /\ Len(calibration_samples) >= 1
    /\ now - lastAccept > 0
    /\ now - lastAccept < sample_interval

\* C6: a started session whose calls from some point on all carry a valid
\* snapshot, at every clock reading, eventually completes: a call returns true
\* with calibrated = true.
C6_EventuallyCompletes ==
    (started /\ ~calibrated) ~> (started /\ calibrated /\ Updated /\ ret)

\* a session completed after its window had been restarted for lack of samples
C6_Witness ==
    /\ started /\ calibrated /\ Updated /\ ret
    /\ completions = 1
    /\ calibration_start_time > samplingBegan

\* the samples summed from the last to the first
RECURSIVE SumBack(_, _, _, _)
SumBack(samples, key, i, from) ==
    IF from > Len(samples) THEN Rat(0, 1)
    ELSE RAdd(samples[from][key][i], SumBack(samples, key, i, from + 1))

\* q is the sum of the samples' coordinate divided by their number
IsMean(q, samples, key, i) ==
    LET total == SumBack(samples, key, i, 1)
    IN q[1] * total[2] * Len(samples) = total[1] * q[2]

\* the orders in which the samples could have been collected
Orders(samples) ==
    {f \in [1..Len(samples) -> 1..Len(samples)] :
        \A a, b \in 1..Len(samples) : a # b => f[a] # f[b]}

\* C8: the baseline of a completed calibration has the six keys, each
\* coordinate the arithmetic mean over the samples, whatever their order.
C8_BaselineIsMean ==
    completions > 0
        => /\ DOMAIN calibration_landmarks = Keys
           /\ \A key \in Keys, i \in 1..3 :
                 IsMean(calibration_landmarks[key][i], calibration_samples, key, i)
           /\ Len(calibration_samples) = 1
                 => calibration_landmarks = calibration_samples[1]
           /\ \A f \in Orders(calibration_samples) :
                 Average([j \in 1..Len(calibration_samples) |-> calibration_samples[f[j]]])
                     = calibration_landmarks

\* a baseline averaged over two different samples
C8_Witness ==
    /\ started
    /\ completions = 1
    /\ Len(calibration_samples) >= 2
    /\ calibration_samples[1] # calibration_samples[2]

\* C9: a baseline is built from at least one sample, and _complete_calibration
\* without samples changes nothing.
C9_BaselineNeedsSample ==
    /\ completions > 0
          => /\ Len(calibration_samples) >= 1
             /\ calibrated
             /\ NonEmpty(calibration_landmarks)
    /\ (calibrated /\ started) => completions > 0
    /\ calibration_samples = << >>
          => \A io \in IoOutcomes : complete_calibration(Self, io) = Self

\* a started session has completed, holding the samples it averaged
C9_Witness ==
    /\ started /\ calibrated
    /\ completions = 1
    /\ Len(calibration_samples) = 2

\* C10: a run completes at most once: the baseline is computed once and
\* save_calibration is called once, however many calls follow.
C10_CompletesOnce ==
    /\ completions <= 1
    /\ saves = completions
    /\ (started /\ calibrated) => (completions = 1 /\ saves = 1)
    /\ (Updated /\ ret) => calibrated

\* a completed run was ticked again long after its completion
C10_Witness ==
    /\ started /\ Updated /\ ret
    /\ completions = 1 /\ saves = 1
    /\ Len(calibration_samples) = 1
    /\ now >= lastAccept + calibration_duration

\* C11 as stated: after a calibration has completed the sample sequence is
\* empty.
C11_SamplesDiscarded ==
    (started /\ completions > 0) => calibration_samples = << >>

\* C11 amended: the samples are kept after averaging; a completed detector
\* holds the samples its baseline was averaged over, later calls leave them as
\* they are, and only start_calibration empties the sequence.
C11_SamplesRetained ==
    [][/\ (completions = 0 /\ completions' > 0)
             => /\ Len(calibration_samples') >= 1
                /\ calibration_landmarks' = Average(calibration_samples')
       /\ (completions > 0 /\ Updated')
             => /\ calibration_samples' = calibration_samples
                /\ calibration_samples' # << >>
       /\ op' = "start_calibration" => calibration_samples' = << >>]_vars

\* a completed session still holds its three samples at a later call
C11_Witness ==
    /\ started /\ Updated /\ ret
    /\ completions = 1
    /\ Len(calibration_samples) = 3
    /\ now > lastAccept

\* a call of check_slouching has just returned or raised
Checked == op = "check_slouching"

\* the cached result and its time
ScoreCache == <<last_slouch_detected, last_slouch_percentage, last_slouch_calculation_time>>

\* C12 as stated: starting a new calibration neither removes nor disables the
\* existing baseline.
C12_StartKeepsBaseline ==
    [][(calibrated /\ op' = "start_calibration")
          => /\ calibrated'
             /\ calibration_landmarks' = calibration_landmarks]_vars

\* C12 amended: start_calibration removes the baseline and clears calibrated;
\* until the new calibration completes check_slouching returns false without
\* scoring and leaves the cache as it is, and every recomputation scores
\* against the baseline the detector holds at that call.
C12_StartRemovesBaseline ==
    [][/\ op' = "start_calibration"
             => /\ ~calibrated'
                /\ calibration_landmarks' = None
                /\ file' = file
       /\ (~calibrated /\ Checked')
             => /\ ret' = FALSE
                /\ ScoreCache' = ScoreCache
                /\ scored' = scored
       /\ (Checked' /\ scored' # scored)
             => /\ calibrated
                /\ last_slouch_percentage'
                      = slouch_percentage(calibration_landmarks, scored')]_vars

\* check_slouching returned false in the sampling phase of a new session for a
\* pose that the baseline loaded before had scored as slouching
C12_Witness ==
    /\ Checked /\ ~ret
    /\ started /\ ~calibrated
    /\ calibration_countdown = 0
    /\ Len(calibration_samples) >= 1
    /\ last_slouch_detected
    /\ file = pickle_dump(extract_posture_landmarks(PoseA))

\* C13 as stated: two check_slouching calls less than the recompute interval
\* apart return the same decision and percentage.
C13_CloseCallsAgree ==
    [][(Checked /\ Checked' /\ now' - now < slouch_calculation_interval)
          => /\ ret' = ret
             /\ last_slouch_detected' = last_slouch_detected
             /\ last_slouch_percentage' = last_slouch_percentage]_vars

\* C13 amended: a call made on a calibrated detector less than the recompute
\* interval after the last recomputation leaves the cached result and its
\* time as they are and, with a pose present and a positive threshold,
\* returns the cached decision whatever the snapshot is.
C13_ThrottledCallUsesCache ==
    [][/\ (Checked' /\ now' - last_slouch_calculation_time < slouch_calculation_interval)
             => /\ ScoreCache' = ScoreCache
                /\ scored' = scored
       /\ calibrated
             => \A pose \in ScorePoses, t \in ScoreLater :
                   (Truthy(pose) /\ ~Due186(Self, t))
                      => LET r == check_slouching(Self, pose, t) IN
                           /\ r.last_slouch_detected = last_slouch_detected
                           /\ r.last_slouch_percentage = last_slouch_percentage
                           /\ r.last_slouch_calculation_time = last_slouch_calculation_time
                           /\ RLess(Rat(0, 1), threshold_percentage)
                                 => (r.ret = last_slouch_detected /\ r.exc = NoExc)]_vars

\* a call one unit after a recomputation that found slouching returned the
\* cached decision
C13_Witness ==
    /\ Checked /\ ret
    /\ calibrated
    /\ scored # None
    /\ last_slouch_detected
    /\ now = last_slouch_calculation_time + 1

\* calls that supply no usable snapshot
Unusable(pose) == ~Truthy(pose) \/ ~NonEmpty(extract_posture_landmarks(pose))

\* C14: without a baseline, or with a pose that is absent or yields an empty
\* snapshot, check_slouching returns false, leaves the cache unchanged and
\* raises nothing.
C14_NoInputReturnsFalse ==
    \A pose \in ScorePoses, t \in ScoreLater :
        (~calibrated \/ Unusable(pose))
            => LET r == check_slouching(Self, pose, t) IN
                 /\ r.ret = FALSE
                 /\ r.exc = NoExc
                 /\ r.last_slouch_detected = last_slouch_detected
                 /\ r.last_slouch_percentage = last_slouch_percentage
                 /\ r.last_slouch_calculation_time = last_slouch_calculation_time

\* C15: the decision is the strict comparison of the percentage with the
\* threshold: a percentage equal to the threshold is not slouching, a larger
\* one is.
C15_StrictThreshold ==
    /\ last_slouch_detected <=> RLess(threshold_percentage, last_slouch_percentage)
    /\ last_slouch_percentage = threshold_percentage => ~last_slouch_detected
    /\ (calibrated /\ ScoredKeys \subseteq DOMAIN calibration_landmarks)
          => \A pose \in ScorePoses :
                (~Unusable(pose))
                   => LET r == calculate_slouch(calibration_landmarks,
                                                extract_posture_landmarks(pose),
                                                threshold_percentage)
                      IN r.detected <=> RLess(threshold_percentage, r.percentage)

\* a recomputation gave a percentage equal to the threshold of 20
C15_Witness ==
    /\ Checked /\ ~ret
    /\ exc = NoExc
    /\ scored = extract_posture_landmarks(PoseDrop)
    /\ last_slouch_calculation_time = now
    /\ last_slouch_percentage = Rat(20, 1)
    /\ threshold_percentage = Rat(20, 1)
    /\ ~last_slouch_detected

\* C16: scoring a snapshot identical to the baseline gives a percentage of 0
\* and no slouching, for every baseline.
C16_IdenticalScoresZero ==
    (Checked /\ calibrated /\ last_slouch_calculation_time = now
       /\ scored = calibration_landmarks)
        => /\ last_slouch_percentage = Rat(0, 1)
           /\ ~last_slouch_detected

\* the largest shoulder drop tried, in units of 0.01
MaxDrop == 6

\* the snapshot with both shoulders d lower and the neck re-derived
Dropped(lm, d) ==
    [lm EXCEPT !.left_shoulder[2] = RAdd(@, Rat(d, 1)),
               !.right_shoulder[2] = RAdd(@, Rat(d, 1)),
               !.neck[2] = RAdd(@, Rat(d, 1))]

\* the nose of the baseline is directly above the midpoint of its shoulders
NoseAboveShoulders(lm) ==
    /\ lm.nose[1] = lm.neck[1]
    /\ RLess(lm.nose[2], lm.neck[2])
    /\ lm.neck[2] = RDivInt(RAdd(lm.left_shoulder[2], lm.right_shoulder[2]), 2)

\* C17: against a baseline with the nose directly above the shoulder midpoint,
\* a snapshot that differs only by both shoulders being d lower has angle and
\* distance terms 0 and scores 0.8 * 100 * d / ref; ref 0.2, d 0.05 and
\* threshold 15 give 20 and slouching.
C17_ShoulderDropScore ==
    /\ (calibrated /\ Keys \subseteq DOMAIN calibration_landmarks
           /\ NoseAboveShoulders(calibration_landmarks))
          => \A d \in 1..MaxDrop :
                LET cal == calibration_landmarks
                    cur == Dropped(cal, d)
                IN /\ angle_percentage(cal, cur) = Rat(0, 1)
                   /\ distance_percentage(cal, cur) = Rat(0, 1)
                   /\ slouch_percentage(cal, cur) = RDiv(Rat(80 * d, 1), ref_distance(cal))
    /\ (Checked /\ calibrated /\ last_slouch_calculation_time = now
           /\ calibration_landmarks = extract_posture_landmarks(PoseA)
           /\ scored = extract_posture_landmarks(PoseDrop))
          => /\ last_slouch_percentage = Rat(20, 1)
             /\ last_slouch_detected

\* the stored upright baseline scored the pose with the shoulders 0.05 lower
C17_Witness ==
    /\ Checked /\ ret
    /\ calibrated /\ ~started
    /\ last_slouch_calculation_time = now
    /\ ref_distance(calibration_landmarks) = Rat(20, 1)
    /\ scored = Dropped(calibration_landmarks, 5)
    /\ last_slouch_percentage = Rat(20, 1)

\* the calibrated nose-neck distance is 0
NoseOnNeck(lm) == squared_distance(lm.nose, lm.neck) = Rat(0, 1)

\* C18: with a calibrated nose-neck distance of 0 the ratio is the live
\* distance over the floor 0.001 and the distance term is (1 - ratio) * 100
\* below a ratio of 1 and 0 otherwise, for every live snapshot; nothing is
\* raised.
C18_FlooredRatio ==
    /\ (calibrated /\ Keys \subseteq DOMAIN calibration_landmarks
           /\ NoseOnNeck(calibration_landmarks))
          => \A pose \in ScorePoses :
                (~Unusable(pose))
                   => LET cal   == calibration_landmarks
                          cur   == extract_posture_landmarks(pose)
                          ratio == RDiv(Norm(neck_nose_vector(cur)), DistanceFloor)
                      IN /\ dist_ratio(cal, cur) = ratio
                         /\ distance_percentage(cal, cur)
                               = IF RLess(ratio, Rat(1, 1))
                                 THEN RMul(RSub(Rat(1, 1), ratio), Rat(100, 1))
                                 ELSE Rat(0, 1)
    /\ (Checked /\ calibrated /\ last_slouch_calculation_time = now
           /\ Keys \subseteq DOMAIN calibration_landmarks
           /\ NoseOnNeck(calibration_landmarks) /\ scored # None)
          => /\ exc # "KeyError"
             /\ last_slouch_percentage
                   = RAdd(RAdd(RMul(shoulder_percentage(calibration_landmarks, scored),
                                    shoulder_factor),
                               RMul(angle_percentage(calibration_landmarks, scored),
                                    angle_factor)),
                          RMul(IF RLess(RDiv(Norm(neck_nose_vector(scored)), DistanceFloor),
                                        Rat(1, 1))
                               THEN RMul(RSub(Rat(1, 1),
                                              RDiv(Norm(neck_nose_vector(scored)),
                                                   DistanceFloor)),
                                         Rat(100, 1))
                               ELSE Rat(0, 1),
                               distance_factor))

\* a baseline with the nose on the neck scored a nose 0.0005 away: ratio 1/2,
\* distance term 50, percentage 20
C18_Witness ==
    /\ Checked
    /\ calibrated
    /\ last_slouch_calculation_time = now
    /\ calibration_landmarks = extract_posture_landmarks(PoseFlat)
    /\ scored = extract_posture_landmarks(PoseNear)
    /\ last_slouch_percentage = Rat(20, 1)

\* C19: once a calibration has completed and saved, a detector constructed
\* over the file is calibrated and holds a baseline equal to the saved one,
\* key by key and coordinate by coordinate.
C19_SaveLoadRoundTrip ==
    /\ calibrated
          => \A io \in IoOutcomes :
                LET saved == save_calibration(Self, io) IN
                  saved.ret
                     => LET d == Construct(saved.file, threshold_percentage) IN
                          /\ d.calibrated
                          /\ DOMAIN d.calibration_landmarks = Keys
                          /\ \A k \in Keys, i \in 1..3 :
                                d.calibration_landmarks[k][i] = calibration_landmarks[k][i]
    /\ (completions > 0 /\ file = pickle_dump(calibration_landmarks))
          => /\ Construct(file, threshold_percentage).calibrated
             /\ Construct(file, threshold_percentage).calibration_landmarks
                   = calibration_landmarks

\* a baseline averaged over two different samples has been saved
C19_Witness ==
    /\ started /\ calibrated
    /\ completions = 1 /\ saves = 1
    /\ Len(calibration_samples) = 2
    /\ calibration_samples[1] # calibration_samples[2]
    /\ file = pickle_dump(calibration_landmarks)
    /\ file # pickle_dump(extract_posture_landmarks(PoseA))

\* the stored content is a complete six-key baseline
CompleteBaseline(content) ==
    /\ content \notin {Missing, Corrupt}
    /\ DOMAIN pickle_load(content) = Keys

\* C20: when the load at construction fails, or the content is not a complete
\* six-key baseline, the detector is left uncalibrated.
C20_BadContentLeavesUncalibrated ==
    (op = "init" /\ ~CompleteBaseline(file)) => ~calibrated

\* C21: save_calibration returns false on every I/O failure, and returns
\* false with the storage untouched when there is no baseline; a failed save
\* at completion leaves the baseline and calibrated = true in memory, and
\* update_calibration still returns true.
C21_FailedSaveIsAbsorbed ==
    /\ \A io \in IoOutcomes \ {"ok"} :
          LET r == save_calibration(Self, io)
          IN /\ ~r.ret
             /\ r.calibrated = calibrated
             /\ r.calibration_landmarks = calibration_landmarks
    /\ (~calibrated \/ calibration_landmarks = None)
          => \A io \in IoOutcomes :
                /\ ~save_calibration(Self, io).ret
                /\ save_calibration(Self, io).file = file
    /\ (Updated /\ completions > 0 /\ file # pickle_dump(calibration_landmarks))
          => /\ ret
             /\ calibrated
             /\ calibration_landmarks = Average(calibration_samples)

\* a calibration has just completed over a missing file that could not be opened
C21_Witness ==
    /\ Updated /\ ret
    /\ started /\ calibrated
    /\ completions = 1 /\ saves = 1
    /\ file = Missing
    /\ calibration_landmarks = Average(calibration_samples)

\* a detector has just been constructed
Built == op = "init"

\* C22 as stated: after any calibrations, saves and restarts, a newly
\* constructed detector is calibrated with exactly the baseline of the most
\* recently completed calibration.
C22_RestartRestoresLatest ==
    (Built /\ latest # None) => (calibrated /\ calibration_landmarks = latest)

\* C22: a newly constructed detector is calibrated with exactly the baseline
\* that was last written successfully; it is uncalibrated when a later save
\* failed while writing, and holds what the file held before the first
\* calibration when no save has written yet.
C22_RestartRestoresLastWritten ==
    Built =>
        /\ (persisted \notin {None, Corrupt})
              => (calibrated /\ calibration_landmarks = persisted)
        /\ (persisted = Corrupt) => (~calibrated /\ calibration_landmarks = None)
        /\ (persisted = None)
              => /\ file \in InitialFiles
                 /\ calibrated = (file \notin {Missing, Corrupt})
        /\ (~calibrated) => calibration_landmarks = None

\* a detector constructed after a calibration whose save succeeded holds that
\* calibration's baseline, which differs from the one stored at the beginning
C22_Witness ==
    /\ Built /\ now > StartTime
    /\ latest # None
    /\ persisted = latest
    /\ calibrated
    /\ calibration_landmarks = latest
    /\ latest # extract_posture_landmarks(PoseA)

\* C23: every read of the baseline inside one _calculate_slouch call sees the
\* same mapping, never a missing one, and the call does not fail on it.
C23_ScoringSeesOneBaseline ==
    /\ exc # "TypeError"
    /\ (call # Idle)
          => \A i \in 1..Len(call.reads) :
                /\ call.reads[i] # None
                /\ call.reads[i] = call.reads[1]

\* C24: whatever the storage held at construction and whatever start_calibration
\* and check_slouching calls follow, with any pose input, no call raises.
C24_NoCallRaises == exc = NoExc

\* twice the neck is the sum of the shoulders, coordinate by coordinate
NeckIsMidpoint(lm) ==
    \A i \in 1..3 :
        RAdd(lm.neck[i], lm.neck[i]) = RAdd(lm.left_shoulder[i], lm.right_shoulder[i])

\* C25: for a pose with the landmark structure the extraction returns exactly
\* the six keys, the source's coordinates and the neck at the midpoint of the
\* shoulders; without the structure it returns the empty dict; every sample
\* held is such a whole snapshot.
C25_ExtractionIsWhole ==
    /\ \A pose \in PoseInputs \cup ScorePoses :
          LET lm == extract_posture_landmarks(pose) IN
            IF "landmark" \in DOMAIN pose
            THEN /\ DOMAIN lm = Keys
                 /\ lm.left_shoulder = Triple(pose.landmark[11])
                 /\ lm.right_shoulder = Triple(pose.landmark[12])
                 /\ lm.nose = Triple(pose.landmark[0])
                 /\ lm.left_ear = Triple(pose.landmark[7])
                 /\ lm.right_ear = Triple(pose.landmark[8])
                 /\ NeckIsMidpoint(lm)
            ELSE lm = EmptyDict
    /\ \A i \in 1..Len(calibration_samples) :
          /\ DOMAIN calibration_samples[i] = Keys
          /\ NeckIsMidpoint(calibration_samples[i])
          /\ \E pose \in ValidPoses :
                calibration_samples[i] = extract_posture_landmarks(pose)

\* the snapshots of the slouched and of the upright pose are held; the neck of
\* the first lies between two grid points
C25_Witness ==
    /\ Updated
    /\ Len(calibration_samples) = 2
    /\ calibration_samples[1].neck = <<Rat(101, 2), Rat(111, 2), Rat(3, 2)>>
    /\ calibration_samples[2].neck = <<Rat(50, 1), Rat(50, 1), Rat(0, 1)>>

\* p >= 0
NonNegative(p) == ~RLess(p, Rat(0, 1))

\* C26 as stated: the percentage the scorer returned is never negative.
C26_PercentageNonNegative == NonNegative(last_slouch_percentage)

\* C26: the angle and distance terms are never negative, and the percentage
\* is 0 or above whenever the live shoulders are on average not higher than
\* the baseline's; a negative percentage was computed by a recomputation.
C26_NegativeOnlyWhenRaised ==
    /\ (calibrated /\ Keys \subseteq DOMAIN calibration_landmarks)
          => \A pose \in RecalPoses \cup ScorePoses :
                (~Unusable(pose))
                   => LET cal == calibration_landmarks
                          cur == extract_posture_landmarks(pose)
                      IN /\ NonNegative(angle_percentage(cal, cur))
                         /\ NonNegative(distance_percentage(cal, cur))
                         /\ NonNegative(avg_shoulder_diff(cal, cur))
                               => NonNegative(slouch_percentage(cal, cur))
    /\ (~NonNegative(last_slouch_percentage)) => scored # None

\* the upright pose scored -8 against a baseline with the shoulders 0.05 lower
C26_Witness ==
    /\ Checked
    /\ started /\ calibrated
    /\ last_slouch_calculation_time = now
    /\ calibration_landmarks = extract_posture_landmarks(PoseDrop)
    /\ scored = extract_posture_landmarks(PoseA)
    /\ last_slouch_percentage = Rat(-8, 1)

\* C27: in the sampling phase a call of update_calibration changes
\* last_sample_time only when it appends a sample.
C27_SampleTimeMovesOnAppend ==
    [][(op' = "update_calibration" /\ calibration_countdown = 0
          /\ last_sample_time' # last_sample_time)
         => Len(calibration_samples') = Len(calibration_samples) + 1]_vars

\* the cache a call leaves behind
CacheOf(r) ==
    <<r.last_slouch_detected, r.last_slouch_percentage, r.last_slouch_calculation_time>>

\* C28: the cache changes only on a check_slouching call made at least the
\* recompute interval after the last recomputation, on a calibrated detector
\* with a baseline and a valid live snapshot; such a call stores the result
\* computed from its snapshot and the time of the call; every other call
\* leaves the cache as it is; with the cache as constructed every such call
\* recomputes.
C28_CacheChangesOnRecompute ==
    /\ [](\A pose \in ScorePoses, t \in ScoreLater :
             LET r == check_slouching(Self, pose, t) IN
               IF /\ calibrated /\ ScoredKeys \subseteq DOMAIN calibration_landmarks
                  /\ ~Unusable(pose)
                  /\ t - last_slouch_calculation_time >= slouch_calculation_interval
               THEN LET c == calculate_slouch(calibration_landmarks,
                                              extract_posture_landmarks(pose),
                                              threshold_percentage)
                    IN CacheOf(r) = <<c.detected, c.percentage, t>>
               ELSE CacheOf(r) = ScoreCache)
    /\ []((last_slouch_calculation_time = 0)
             => \A t \in ScoreLater : Due186(Self, t))
    /\ [][(ScoreCache' # ScoreCache)
             => /\ op' = "check_slouching"
                /\ calibrated
                /\ now' - last_slouch_calculation_time >= slouch_calculation_interval
                /\ ScoredKeys \subseteq DOMAIN calibration_landmarks
                /\ scored' # None /\ DOMAIN scored' = Keys
                /\ last_slouch_calculation_time' = now'
                /\ last_slouch_percentage' = slouch_percentage(calibration_landmarks, scored')
                /\ last_slouch_detected'
                      = RLess(threshold_percentage, last_slouch_percentage')]_vars

\* a second recomputation, one interval after the first, replaced the cached
\* result of the dropped shoulders by that of the tilted head
C28_Witness ==
    /\ Checked
    /\ calibrated
    /\ now = StartTime + slouch_calculation_interval
    /\ last_slouch_calculation_time = now
    /\ scored = extract_posture_landmarks(PoseTilt)
    /\ last_slouch_percentage = Rat(18, 1)
    /\ threshold_percentage = Rat(15, 1)
    /\ last_slouch_detected

\* a rational with a positive denominator
Finite(p) == p[1] \in Int /\ p[2] \in Nat \ {0}

\* C29: against every baseline the shoulder term is 0 when the reference
\* distance is 0 and the angle term is 0 when the calibrated or the live
\* neck-to-nose vector has length 0, and _calculate_slouch returns a boolean
\* and a finite percentage.
C29_DegenerateGeometryGuarded ==
    (calibrated /\ Keys \subseteq DOMAIN calibration_landmarks)
       => \A pose \in ScorePoses :
             (~Unusable(pose))
                => LET cal == calibration_landmarks
                       cur == extract_posture_landmarks(pose)
                       r   == calculate_slouch(cal, cur, threshold_percentage)
                   IN /\ (ref_distance(cal) = Rat(0, 1))
                            => shoulder_percentage(cal, cur) = Rat(0, 1)
                      /\ (\/ Norm(neck_nose_vector(cal)) = Rat(0, 1)
                          \/ Norm(neck_nose_vector(cur)) = Rat(0, 1))
                            => /\ angle_diff(cal, cur) = Rat(0, 1)
                               /\ angle_percentage(cal, cur) = Rat(0, 1)
                      /\ r.detected \in BOOLEAN
                      /\ Finite(r.percentage)

\* dropped shoulders scored 0 against a baseline whose nose lies on the
\* shoulder line: no reference distance and no calibrated neck-to-nose vector
C29_Witness ==
    /\ Checked /\ ~ret
    /\ exc = NoExc
    /\ calibrated
    /\ last_slouch_calculation_time = now
    /\ calibration_landmarks = extract_posture_landmarks(PoseFlat)
    /\ ref_distance(calibration_landmarks) = Rat(0, 1)
    /\ scored = extract_posture_landmarks(PoseDrop)
    /\ last_slouch_percentage = Rat(0, 1)

\* the distance term for a calibrated distance dc and a live distance dl
DistTerm(dc, dl) ==
    IF RLess(dl, dc)
    THEN RMul(RSub(Rat(1, 1), RDiv(dl, dc)), Rat(100, 1))
    ELSE Rat(0, 1)

\* p lies in [0, 100]
InPercentRange(p) == NonNegative(p) /\ ~RLess(Rat(100, 1), p)

WindowSamples == calibration_duration \div sample_interval

\* C39 as stated: at every state the sample sequence holds fewer than
\* calibration_duration / sample_interval (= 30) samples.
C39_FewerThanWindowSamples ==
    Len(calibration_samples) < WindowSamples

\* C39: at every state the sample sequence holds at most
\* calibration_duration / sample_interval (= 30) samples, whatever the tick
\* rate and however many empty sampling windows were retried, so a baseline
\* is never averaged over more than that many samples.
C39_AtMostWindowSamples ==
    /\ Len(calibration_samples) <= WindowSamples
    /\ (calibrated /\ completions > 0)
          => calibration_landmarks = Average(calibration_samples)

\* a window begun by a retry has filled: its first sample was taken at the
\* retry itself, last_sample_time being one window old
C39_Witness ==
    /\ started
    /\ calibration_countdown = 0
    /\ calibration_start_time > samplingBegan
    /\ Len(calibration_samples) = WindowSamples

\* C33: after start_calibration, update_calibration never returns true earlier
\* than countdown plus calibration_duration after that start: it returns true
\* only on a tick at least calibration_duration after the beginning of the
\* current sampling window, which begins no earlier than the countdown after
\* the start.
C33_CompletionAfterCountdownAndWindow ==
    started
       => /\ (Updated /\ ret)
                => /\ now - startedAt >= COUNTDOWN + calibration_duration
                   /\ calibration_countdown = 0
                   /\ now - calibration_start_time >= calibration_duration
          /\ calibration_countdown = 0
                => calibration_start_time - startedAt >= COUNTDOWN

\* the earliest completion: exactly countdown plus window after the start
C33_Witness ==
    /\ started
    /\ Updated
    /\ ret
    /\ completions = 1
    /\ now - startedAt = COUNTDOWN + calibration_duration

\* C35: a tick at or after the window end appends a snapshot only if the
\* sample sequence was still empty, and then a single one; when at least one
\* sample exists it appends nothing, and the baseline it completes is the
\* average of exactly the samples accepted before the window end.
C35_WindowEndSamplesOnlyWhenEmpty ==
    [][(/\ op' = "update_calibration"
        /\ calibration_countdown = 0
        /\ now' - calibration_start_time >= calibration_duration)
          => /\ IF Len(calibration_samples) = 0
                THEN Len(calibration_samples') <= 1
                ELSE calibration_samples' = calibration_samples
             /\ (completions' > completions /\ Len(calibration_samples) > 0)
                   => /\ calibration_landmarks' = Average(calibration_samples)
                      /\ lastAccept < calibration_start_time + calibration_duration]_vars

\* a calibration completed over two or more samples, on a tick more than
\* sample_interval after the last of them
C35_Witness ==
    /\ started
    /\ Updated
    /\ ret
    /\ completions = 1
    /\ Len(calibration_samples) >= 2
    /\ now - calibration_start_time = calibration_duration
    /\ now - lastAccept >= sample_interval
    /\ calibration_landmarks = Average(calibration_samples)

\* C34: a decision served from the cache is never stale: whenever a call of
\* check_slouching would return the cached decision, the cache holds the score
\* of the last scored snapshot against the baseline now installed; and once a
\* calibration has completed, a cache computed before it is due for
\* recomputation at every later call.
C34_CachedDecisionOfInstalledBaseline ==
    (calibrated /\ calibration_landmarks # None /\ scored # None)
       => /\ (\E t \in RecalLater : ~Due186(Self, t))
                => CacheOf(Self)
                     = CacheOf(Recompute(Self, scored, last_slouch_calculation_time))
          /\ (completions > 0 /\ last_slouch_calculation_time <= samplingBegan)
                => \A t \in RecalLater : Due186(Self, t)

\* a score cached against the stored baseline, a calibration that installed
\* another one, and a call just after it that recomputed
C34_Witness ==
    /\ Checked
    /\ calibrated
    /\ completions > 0
    /\ calibration_landmarks # extract_posture_landmarks(PoseA)
    /\ scored # None
    /\ last_slouch_calculation_time = now
    /\ now - samplingBegan = calibration_duration

\* C36: start_calibration leaves the stored baseline untouched: while the
\* calibration it started has not completed, the file holds what the last save
\* wrote, and a detector constructed then, as after a restart of the process,
\* is calibrated with that baseline.
C36_StartLeavesStoredBaseline ==
    /\ [][op' = "start_calibration" => file' = file]_vars
    /\ [](LET stored == IF persisted = None
                        THEN extract_posture_landmarks(PoseA) ELSE persisted
          IN (/\ started /\ ~calibrated /\ completions = 0
              /\ persisted # Corrupt
              /\ persisted = None => file \notin {Missing, Corrupt})
                => /\ file = pickle_dump(stored)
                   /\ Construct(file, threshold_percentage).calibrated
                   /\ Construct(file, threshold_percentage).calibration_landmarks = stored)
    /\ [][(/\ op' = "init" /\ started /\ ~calibrated /\ completions = 0
           /\ persisted \notin {None, Corrupt})
             => (calibrated' /\ calibration_landmarks' = persisted)]_vars

\* a calibration was completed and saved, and start_calibration has just been
\* called again
C36_Witness ==
    /\ op = "start_calibration"
    /\ ~calibrated
    /\ calibration_landmarks = None
    /\ persisted \notin {None, Corrupt}
    /\ persisted # extract_posture_landmarks(PoseA)
    /\ file = pickle_dump(persisted)

\* C38: calibration and scoring do not write each other's state:
\* start_calibration and update_calibration leave the score cache and
\* threshold_percentage as they are, check_slouching leaves calibrated, the
\* baseline, the samples, the countdown and the session timestamps as they
\* are, and no operation changes threshold_percentage.
C38_CalibrationAndScoringKeepApart ==
    [][/\ op' \in {"start_calibration", "update_calibration"}
             => ScoreCache' = ScoreCache
       /\ op' = "check_slouching"
             => UNCHANGED <<calibrated, calibration_landmarks, calibration_samples,
                            calibration_countdown, calibration_start_time,
                            last_sample_time>>
       /\ threshold_percentage' = threshold_percentage]_vars

\* a score is cached, a calibration is under way with samples taken, and
\* check_slouching has just been called
C38_Witness ==
    /\ Checked
    /\ started
    /\ ~calibrated
    /\ Len(calibration_samples) > 0
    /\ last_slouch_calculation_time > 0
    /\ last_slouch_percentage # Rat(0, 1)

\* C31: a calibration requested through Camera.start_calibration is never
\* lost: once the request is made, is_calibrating stays true until
\* update_calibration has completed the session the request started, and the
\* detector is never left uncalibrated with is_calibrating false.
C31_RequestedCalibrationNotLost ==
    (started /\ gui.pc = "idle")
       => /\ completions = 0 => camera.is_calibrating
          /\ ~calibrated => camera.is_calibrating

\* C32: in every reachable state, under every interleaving of the GUI thread's
\* start_calibration with the camera thread's handling of update_calibration,
\* calibrated implies that calibration_landmarks is a complete baseline.
C32_CalibratedHasCompleteBaseline ==
    calibrated
       => /\ calibration_landmarks # None
          /\ Keys \subseteq DOMAIN calibration_landmarks

\* C37: when a calibration has completed and check_calibration_status ends it
\* as calibrated, processing_delay and enable_slouch_detection are what they
\* were before the calibration was requested, also when calibrate_posture was
\* invoked again while the calibration was in progress.
C37_SettingsRestoredAfterCalibration ==
    [][(/\ gui.calibration_timer /\ ~gui'.calibration_timer
        /\ gui'.calibration_status = "Calibrated"
        /\ completions > 0 /\ calibration_landmarks # None)
         => /\ camera'.processing_delay = before.processing_delay
            /\ camera'.enable_slouch_detection = before.enable_slouch_detection]_vars

====
